---- MODULE Spec2Model ----
(***************************************************************************)
(* Model of the load balancer of src/load-balancer-refactored.py:          *)
(* HealthChecker (cache, check_server, check_all_servers_parallel,         *)
(* _calculate_score), LoadBalancer.get_best_server and the Flask handlers  *)
(* upload_endpoint (/server), health_check (/health),                      *)
(* individual_server_health (/servers/<name>/health) and not_found, run by *)
(* concurrent request threads, with the retry strategy of the session and  *)
(* the executor shared by the snapshot calls.                              *)
(*                                                                         *)
(* Conventions.  Times (time.time(), datetime.now()) are whole seconds;    *)
(* the clock advances TickSeconds at a time.  response_time is in          *)
(* milliseconds.  Python's None is -1 in the integer fields response_time  *)
(* and status_code and "None" in the string field error.  The field score  *)
(* holds whatever the upstream sent: a number, or ScoreNaN for float('nan') *)
(* or ScoreNone for None; scores are compared by Greater only.  Latencies  *)
(* are multiples of 10 ms, on which the float arithmetic of                *)
(* _calculate_score is exact in integers.                                  *)
(***************************************************************************)
EXTENDS Integers, Sequences, FiniteSets, TLC

\* ---- bounds of the model ----
NumServers == 2
MaxReq == 2
MaxTicks == 2
TickSeconds == 5
MaxLatencySteps == 105
MaxLeft == 1
PoolServers == 4
MaxPoolLeft == 3

\* ---- program constants ----
cache_ttl == 10
max_workers == 10
max_retries == 2
status_forcelist == {429, 500, 502, 503, 504}

VARIABLES now, cache, req, task, resp, lat, score, pool, queue

vars == <<now, cache, req, task, resp, lat, score, pool, queue>>

HEALTHY == "healthy"
UNHEALTHY == "unhealthy"
ERROR == "error"

\* The registry: ServerConfig(name, url) per position; names and URLs unique.
SERVERS == [i \in 1..NumServers |-> [name |-> i, url |-> i]]

Requests == 1..MaxReq

\* The holders of check_server calls: request thread r holds the calls of the
\* request it serves; 0 holds the futures of failed snapshot calls that have not
\* ended, which no request waits for any more.
Slots == 0..MaxReq

\* Latencies in ms on which _calculate_score is examined.
Latencies == {10 * n : n \in 0..MaxLatencySteps}

\* Names a client may ask /servers/<server_name>/health for; 0 is not registered.
ServerNames == 0..NumServers

\* ---- what the upstream answers to one attempt of the transport ----
\* exc: the attempt failed before an answer was there (connection refused,
\* timeout on the status line, ...); otherwise an answer with status_code and,
\* for 200, a body:
\*   "object"          JSON object with a "score" member (score holds it)
\*   "object_no_score" JSON object without "score"
\*   "non_object"      valid JSON that is not an object (list, string, null, ...)
\*   "not_json"        body on which response.json() raises a ValueError
\*                     (JSONDecodeError)
\*   "deep_object"     body on which response.json() raises an exception that is
\*                     not a ValueError (RecursionError on an object nested too
\*                     deep for the decoder)
\*   "broken"          body that cannot be read to its end (a chunked body that
\*                     breaks off, a timeout while the body is read)
\* for a JSON object, the value of its "status" member ("absent" when the
\* object has none); and retry_after: the Retry-After header of the answer.

\* Values of the "score" member that are not numbers of the model: NaN, which
\* response.json() accepts and decodes to float('nan'), and null, decoded to
\* None.  Line 130 stores the value as it is.
ScoreNaN == 1001
ScoreNone == 1002

IsNumber(x) == x \notin {ScoreNaN, ScoreNone}

\* The "score" member of a body: a number, NaN or null.
UpstreamScores == {-5, ScoreNaN, ScoreNone}

BodyStatus == {"healthy", "unhealthy", "absent"}

\* Status codes other than 200 an upstream answers with: one that the retry
\* strategy never retries, one of its status_forcelist, and 413, which it
\* retries when the answer carries a Retry-After header.
UpstreamStatus == {404, 413, 503}

\* The statuses for which the Retry strategy honours a Retry-After header
\* (respect_retry_after_header is left at its default).
RETRY_AFTER_STATUS_CODES == {413, 429, 503}

\* The Retry-After header of an answer: none; a number of seconds (or a date);
\* "invalid", a value that is neither; "unconvertible", a number or a date
\* that has the form but cannot be converted (more digits than int() accepts,
\* a year that no date has).
RetryAfter == {"absent", "seconds", "invalid", "unconvertible"}

Answers ==
    {[exc |-> TRUE, status_code |-> -1, body |-> "none", score |-> 0, status |-> "absent",
      retry_after |-> "absent"]}
    \cup {[exc |-> FALSE, status_code |-> c, body |-> "none", score |-> 0,
            status |-> "absent", retry_after |-> ra] :
              c \in UpstreamStatus, ra \in RetryAfter}
    \cup {[exc |-> FALSE, status_code |-> 200, body |-> b, score |-> 0,
            status |-> "absent", retry_after |-> "absent"] :
              b \in {"non_object", "not_json", "deep_object", "broken"}}
    \cup {[exc |-> FALSE, status_code |-> 200, body |-> "object_no_score", score |-> 0,
            status |-> st, retry_after |-> "absent"] : st \in BodyStatus}
    \cup {[exc |-> FALSE, status_code |-> 200, body |-> "object", score |-> s,
            status |-> st, retry_after |-> "absent"] : s \in UpstreamScores, st \in BodyStatus}

\* What check_server has of a session.get: exc when it raised a
\* requests.RequestException, fault when it raised another exception, otherwise
\* the response, of which it reads the status code and the body (never a
\* header).
NoOutcome ==
    [exc |-> FALSE, fault |-> FALSE, status_code |-> -1, body |-> "none", score |-> 0,
     status |-> "absent"]

\* session.get returns the answer a.
Response(a) ==
    [exc |-> FALSE, fault |-> FALSE, status_code |-> a.status_code, body |-> a.body,
     score |-> a.score, status |-> a.status]

\* session.get raises a RequestException; status_code is the status a RetryError
\* reports ("too many 503 error responses") and -1 for every other exception.
Failure(status_code) ==
    [exc |-> TRUE, fault |-> FALSE, status_code |-> status_code, body |-> "none",
     score |-> 0, status |-> "absent"]

\* session.get raises an exception that is not a RequestException: the
\* ValueError of Retry.parse_retry_after on a value it cannot convert, which
\* neither urllib3 nor requests wraps.
Fault ==
    [exc |-> FALSE, fault |-> TRUE, status_code |-> -1, body |-> "none", score |-> 0,
     status |-> "absent"]

\* _create_session lines 86-90: what the Retry strategy counts as a failed
\* attempt (GET is idempotent): a failure before an answer was there; an answer
\* whose status is in status_forcelist (also with no retry left: the strategy
\* is then exhausted); and, while a retry is left, an answer with a Retry-After
\* header and a status of RETRY_AFTER_STATUS_CODES.  A body that cannot be read
\* is found after the Retry strategy has accepted the answer.
Retryable(a, retries) ==
    \/ a.exc
    \/ a.status_code \in status_forcelist
    \/ (retries > 0 /\ a.retry_after # "absent"
           /\ a.status_code \in RETRY_AFTER_STATUS_CODES)

\* The strategy makes a further attempt after the answer a: a retry is left,
\* and the Retry-After header that Retry.sleep reads before the next attempt
\* can be parsed and converted.
Repeats(a, retries) ==
    /\ Retryable(a, retries)
    /\ retries > 0
    /\ a.retry_after \notin {"invalid", "unconvertible"}

\* What the upstream answers to the successive attempts of one session.get: a
\* further attempt is made only after an answer that the strategy repeats, and
\* at most max_retries times.
Attempts ==
    {s \in UNION {[1..n -> Answers] : n \in 1..(max_retries + 1)} :
        /\ \A i \in 1..(Len(s) - 1) : Repeats(s[i], max_retries - (i - 1))
        /\ ~Repeats(s[Len(s)], max_retries - (Len(s) - 1))}

RECURSIVE session_get(_, _)
\* self.session.get (line 115) through the HTTPAdapter with the Retry strategy.
\* An answer that the strategy accepts is delivered, unless its body cannot be
\* read: Session.send then raises (ChunkedEncodingError, ConnectionError) with
\* no further attempt.  After a failed attempt: with no retry left the failure
\* is raised (for a status of status_forcelist as RetryError); a Retry-After
\* header that cannot be parsed raises InvalidHeader, one that cannot be
\* converted a ValueError; otherwise the next attempt is made.
session_get(attempts, retries) ==
    LET a == Head(attempts) IN
    IF ~Retryable(a, retries)
    THEN IF a.body = "broken" THEN Failure(-1) ELSE Response(a)
    ELSE IF retries = 0 THEN Failure(a.status_code)
    ELSE IF a.retry_after = "invalid" THEN Failure(-1)
    ELSE IF a.retry_after = "unconvertible" THEN Fault
    ELSE session_get(Tail(attempts), retries - 1)

\* ---- what one session.get delivers to check_server ----
Outcomes == {session_get(s, max_retries) : s \in Attempts}

Max(a, b) == IF a >= b THEN a ELSE b

\* Variant of _calculate_score without the floor max(1, ...) of its last branch.
_calculate_score_no_floor(response_time) ==
    IF response_time < 100 THEN 100
    ELSE IF response_time < 500 THEN 100 - ((response_time - 100) * 2) \div 10
    ELSE 100 - response_time \div 10

\* HealthChecker._calculate_score, response_time in ms (a multiple of 10).
_calculate_score(response_time) ==
    IF response_time < 100 THEN 100
    ELSE IF response_time < 500 THEN 100 - ((response_time - 100) * 2) \div 10
    ELSE Max(1, 100 - response_time \div 10)

\* The ServerHealth dataclass.
ServerHealth(name, url, health, response_time, sc, status_code, error, last_checked) ==
    [name |-> name, url |-> url, health |-> health, response_time |-> response_time,
     score |-> sc, status_code |-> status_code, error |-> error,
     last_checked |-> last_checked]

NoHealth == ServerHealth(0, 0, "none", -1, 0, -1, "None", -1)

\* Variants of _is_cache_valid with a slip, used to test the cache properties.
_is_cache_valid_inclusive(c, t, server_url) ==
    IF server_url \notin DOMAIN c THEN FALSE
    ELSE (t - c[server_url].timestamp) <= cache_ttl

_is_cache_valid_healthy_only(c, t, server_url) ==
    IF server_url \notin DOMAIN c THEN FALSE
    ELSE /\ c[server_url].health.health = HEALTHY
         /\ (t - c[server_url].timestamp) < cache_ttl

_is_cache_valid_no_ttl(c, t, server_url) == server_url \in DOMAIN c

\* HealthChecker._is_cache_valid, with time.time() = t.
_is_cache_valid(c, t, server_url) ==
    IF server_url \notin DOMAIN c THEN FALSE
    ELSE (t - c[server_url].timestamp) < cache_ttl

\* Variant of Raises in which the transport failure is not caught either.
Raises_on_transport(out) ==
    \/ out.exc
    \/ out.fault
    \/ (out.status_code = 200 /\ out.body \in {"non_object", "deep_object"})

\* check_server lines 113-163: an exception that neither except clause catches
\* leaves check_server.  Line 154 catches only requests.RequestException of
\* what session.get raises; a decodable body that is not an object has no .get
\* (AttributeError), and response.json() can raise an exception that is not a
\* ValueError (RecursionError).
Raises(out) ==
    \/ out.fault
    \/ (~out.exc /\ out.status_code = 200 /\ out.body \in {"non_object", "deep_object"})

\* Variant of BuildHealth that takes the status of a 200 answer from the
\* "status" member of the body.
BuildHealth_body_status(server, out, start_time, t) ==
    LET response_time == (t - start_time) * 1000 IN
    IF out.exc
    THEN ServerHealth(server.name, server.url, ERROR, -1, 0, -1, "RequestException", t)
    ELSE IF out.status_code = 200
    THEN IF out.body = "not_json"
         THEN ServerHealth(server.name, server.url, UNHEALTHY, response_time, 0,
                           out.status_code, "Invalid health response", t)
         ELSE ServerHealth(server.name, server.url,
                           IF out.status = "healthy" THEN HEALTHY ELSE UNHEALTHY,
                           response_time,
                           IF out.body = "object" THEN out.score
                           ELSE _calculate_score(response_time),
                           out.status_code, "None", t)
    ELSE ServerHealth(server.name, server.url, UNHEALTHY, response_time, 0,
                      out.status_code, "None", t)

\* Variant of BuildHealth whose Error record carries the elapsed time and the
\* score of that time.
BuildHealth_timed_error(server, out, start_time, t) ==
    LET response_time == (t - start_time) * 1000 IN
    IF out.exc
    THEN ServerHealth(server.name, server.url, ERROR, response_time,
                      _calculate_score(response_time), -1, "RequestException", t)
    ELSE IF out.status_code = 200
    THEN IF out.body = "not_json"
         THEN ServerHealth(server.name, server.url, UNHEALTHY, response_time, 0,
                           out.status_code, "Invalid health response", t)
         ELSE ServerHealth(server.name, server.url, HEALTHY, response_time,
                           IF out.body = "object" THEN out.score
                           ELSE _calculate_score(response_time),
                           out.status_code, "None", t)
    ELSE ServerHealth(server.name, server.url, UNHEALTHY, response_time, 0,
                      out.status_code, "None", t)

\* check_server lines 113-163: the record built from the outcome of session.get,
\* start_time and the time t read after the response.
BuildHealth(server, out, start_time, t) ==
    LET response_time == (t - start_time) * 1000 IN
    IF out.exc
    THEN ServerHealth(server.name, server.url, ERROR, -1, 0, -1, "RequestException", t)
    ELSE IF out.status_code = 200
    THEN IF out.body = "not_json"
         THEN ServerHealth(server.name, server.url, UNHEALTHY, response_time, 0,
                           out.status_code, "Invalid health response", t)
         ELSE ServerHealth(server.name, server.url, HEALTHY, response_time,
                           IF out.body = "object" THEN out.score
                           ELSE _calculate_score(response_time),
                           out.status_code, "None", t)
    ELSE ServerHealth(server.name, server.url, UNHEALTHY, response_time, 0,
                      out.status_code, "None", t)

\* One call of check_server: where it is and what it holds.
\*   pc: "queued" (submitted, not yet running), "sent" (session.get in flight),
\*       "built" (record constructed, cache not yet written), "done" (returned),
\*       "raised" (an exception left check_server)
NewTask(server) ==
    [server |-> server, pc |-> "queued", start_time |-> -1, out |-> NoOutcome,
     health |-> NoHealth, hit |-> FALSE]

\* check_all_servers_parallel line 171: one future per server, in list order.
Futures(servers) == [i \in 1..Len(servers) |-> NewTask(servers[i])]

\* Variant of Results that yields the records in the order of their capture
\* (as concurrent.futures.as_completed would).
Results_as_completed(futs) ==
    SortSeq([i \in 1..Len(futs) |-> futs[i].health],
            LAMBDA a, b : a.last_checked < b.last_checked)

\* check_all_servers_parallel line 172: the results in the order of the futures.
Results(futs) == [i \in 1..Len(futs) |-> futs[i].health]

\* Python's a > b on two scores is defined unless one of them is None
\* (TypeError: '>' not supported).
Comparable(a, b) == a # ScoreNone /\ b # ScoreNone

\* Python's a > b on two comparable scores: every comparison with NaN is False.
Greater(a, b) == IsNumber(a) /\ IsNumber(b) /\ a > b

RECURSIVE MaxByScore(_, _)
\* Python's max(seq, key=score) over a non-empty list: the element is replaced
\* only by one whose score is greater, so that the first maximal one is kept.
MaxByScore(s, best) ==
    IF s = <<>> THEN best
    ELSE MaxByScore(Tail(s),
                    IF Greater(Head(s).score, best.score) THEN Head(s) ELSE best)

RECURSIVE MaxRaises(_, _)
\* max(seq, key=score) raises TypeError: one of the comparisons it makes, each
\* element after the first with the best one so far, is not defined.
MaxRaises(s, best) ==
    IF s = <<>> THEN FALSE
    ELSE IF ~Comparable(Head(s).score, best.score) THEN TRUE
    ELSE MaxRaises(Tail(s),
                   IF Greater(Head(s).score, best.score) THEN Head(s) ELSE best)

IsHealthy(s) == s.health = HEALTHY

\* LoadBalancer.get_best_server lines 205-214 on the snapshot all_servers raises
\* (line 214).
get_best_server_raises(all_servers) ==
    LET healthy_servers == SelectSeq(all_servers, IsHealthy) IN
    /\ healthy_servers # <<>>
    /\ MaxRaises(Tail(healthy_servers), Head(healthy_servers))

\* LoadBalancer.get_best_server lines 205-214 on the snapshot all_servers, when
\* it returns; NoHealth stands for None.
get_best_server(all_servers) ==
    LET healthy_servers == SelectSeq(all_servers, IsHealthy) IN
    IF healthy_servers = <<>> THEN NoHealth
    ELSE MaxByScore(Tail(healthy_servers), Head(healthy_servers))

\* The response of a handler: the HTTP status, the record it carries (None for
\* NoHealth) and, for /health, the list all_servers.
NoResp == [code |-> 0, best |-> NoHealth, all |-> <<>>]

\* A request thread: the endpoint it serves (kind) and where it is (pc):
\* "idle", "waiting" (in check_server / future.result()), "returned" (response
\* built), "failed" (the handler's except branch built the 500 response);
\* name is the <server_name> of the URL (-1 when the endpoint has none).
Idle == [kind |-> "none", pc |-> "idle", name |-> -1]

\* A snapshot call seen from the executor: where the calling thread is (pc as
\* in req, and "submitting" while it is in the loop of line 171), how many tasks
\* it has submitted, how many of them a worker has taken (the work queue is
\* first in, first out: these are the futures 1..started of its list), which
\* of them occupy a worker, and the first future of the list that has raised
\* (0 for none).  Its tasks that wait for a worker are in queue.  The record of
\* holder 0 has one running member per running task that failed calls have left.
PoolIdle == [pc |-> "idle", submitted |-> 0, started |-> 0, running |-> {}, raised |-> 0]

Init ==
    /\ now = 0
    /\ cache = <<>>
    /\ req = [r \in Requests |-> Idle]
    /\ task = [s \in Slots |-> <<>>]
    /\ resp = [r \in Requests |-> NoResp]
    /\ lat = <<0, 0>>
    /\ score = <<_calculate_score(0), _calculate_score(0)>>
    /\ pool = [r \in Slots |-> PoolIdle]
    /\ queue = <<>>

\* time passes
Tick ==
    /\ now + TickSeconds <= MaxTicks * TickSeconds
    /\ now' = now + TickSeconds
    /\ UNCHANGED <<cache, req, task, resp, lat, score, pool, queue>>

\* GET /server arrives: upload_endpoint -> get_best_server ->
\* check_all_servers_parallel submits the futures.
StartServer(r) ==
    /\ req[r].pc = "idle"
    /\ req' = [req EXCEPT ![r] = [kind |-> "server", pc |-> "waiting", name |-> -1]]
    /\ task' = [task EXCEPT ![r] = Futures(SERVERS)]
    /\ UNCHANGED <<now, cache, resp, lat, score, pool, queue>>

\* Variant of find_server that falls back to the first registry member.
find_server_default(server_name) ==
    LET found == {i \in 1..Len(SERVERS) : SERVERS[i].name = server_name} IN
    IF found = {} THEN 1
    ELSE CHOOSE i \in found : \A j \in found : i <= j

\* individual_server_health line 298: next((s for s in SERVERS if s.name ==
\* server_name), None): the position of the first member of that name, 0 for None.
find_server(server_name) ==
    LET found == {i \in 1..Len(SERVERS) : SERVERS[i].name = server_name} IN
    IF found = {} THEN 0
    ELSE CHOOSE i \in found : \A j \in found : i <= j

\* GET /servers/<server_name>/health arrives: individual_server_health.
StartOne(r, server_name) ==
    /\ req[r].pc = "idle"
    /\ LET server == find_server(server_name) IN
       IF server = 0
       THEN /\ req' = [req EXCEPT ![r] =
                          [kind |-> "one", pc |-> "returned", name |-> server_name]]
            /\ resp' = [resp EXCEPT ![r] = [code |-> 404, best |-> NoHealth, all |-> <<>>]]
            /\ UNCHANGED task
       ELSE /\ req' = [req EXCEPT ![r] =
                          [kind |-> "one", pc |-> "waiting", name |-> server_name]]
            /\ task' = [task EXCEPT ![r] = <<NewTask(SERVERS[server])>>]
            /\ UNCHANGED resp
    /\ UNCHANGED <<now, cache, lat, score, pool, queue>>

\* tasks of the executor that occupy a worker thread
InExecutor(r) == r = 0 \/ req[r].kind \in {"server", "health"}

Running ==
    {<<r, k>> \in Slots \X (1..NumServers) :
        /\ InExecutor(r)
        /\ k \in DOMAIN task[r]
        /\ task[r][k].pc \in {"sent", "built"}}

\* Variant of HasIdleWorker for an executor that starts a thread per task.
HasIdleWorker_unbounded(busy) == TRUE

\* ThreadPoolExecutor(max_workers=10), line 81: a queued task starts only while
\* fewer than max_workers worker threads are busy.
HasIdleWorker(busy) == busy < max_workers

\* a check_server call that has not ended
Unfinished(t) == t.pc \notin {"done", "raised"}

\* The calls of holder r after a step: a future that no request waits for is
\* gone once it has ended.
Settle(r, calls) == IF r = 0 THEN SelectSeq(calls, Unfinished) ELSE calls

\* check_server lines 110-120: consult the cache; return the cached record or
\* send the request.
TaskStart(r, k) ==
    /\ k \in DOMAIN task[r]
    /\ task[r][k].pc = "queued"
    /\ InExecutor(r) => HasIdleWorker(Cardinality(Running))
    /\ LET t == task[r][k] IN
       IF _is_cache_valid(cache, now, t.server.url)
       THEN task' = [task EXCEPT ![r] = Settle(r, [task[r] EXCEPT ![k] =
                        [t EXCEPT !.pc = "done", !.health = cache[t.server.url].health,
                                  !.hit = TRUE]])]
       ELSE task' = [task EXCEPT ![r][k] = [t EXCEPT !.pc = "sent", !.start_time = now]]
    /\ UNCHANGED <<now, cache, req, resp, lat, score, pool, queue>>

\* check_server lines 115-163: session.get returns or raises; the record is built.
Respond(r, k, out) ==
    /\ k \in DOMAIN task[r]
    /\ task[r][k].pc = "sent"
    /\ LET t == task[r][k] IN
       IF Raises(out)
       THEN task' = [task EXCEPT ![r] = Settle(r, [task[r] EXCEPT ![k] =
                        [t EXCEPT !.pc = "raised", !.out = out, !.start_time = -1]])]
       ELSE task' = [task EXCEPT ![r][k] =
                        [t EXCEPT !.pc = "built", !.out = out, !.start_time = -1,
                                  !.health = BuildHealth(t.server, out, t.start_time, now)]]
    /\ UNCHANGED <<now, cache, req, resp, lat, score, pool, queue>>

\* Variant of WriteCache that caches only Healthy records.
WriteCache_healthy_only(r, k) ==
    /\ k \in DOMAIN task[r]
    /\ task[r][k].pc = "built"
    /\ LET t == task[r][k] IN
       /\ cache' = IF t.health.health # HEALTHY THEN cache
                   ELSE [u \in DOMAIN cache \cup {t.server.url} |->
                            IF u = t.server.url
                            THEN [health |-> t.health, timestamp |-> now]
                            ELSE cache[u]]
       /\ task' = [task EXCEPT ![r] = Settle(r, [task[r] EXCEPT ![k] = [t EXCEPT !.pc = "done"]])]
    /\ UNCHANGED <<now, req, resp, lat, score, pool, queue>>

\* check_server lines 166-167: self.cache[server.url] = (health, time.time()).
WriteCache(r, k) ==
    /\ k \in DOMAIN task[r]
    /\ task[r][k].pc = "built"
    /\ LET t == task[r][k] IN
       /\ cache' = [u \in DOMAIN cache \cup {t.server.url} |->
                       IF u = t.server.url
                       THEN [health |-> t.health, timestamp |-> now]
                       ELSE cache[u]]
       /\ task' = [task EXCEPT ![r] = Settle(r, [task[r] EXCEPT ![k] = [t EXCEPT !.pc = "done"]])]
    /\ UNCHANGED <<now, req, resp, lat, score, pool, queue>>

\* line 172: future.result() in list order re-raises the first stored exception
\* once every earlier future has completed.
SnapshotRaises(futs) ==
    \E k \in DOMAIN futs :
        /\ futs[k].pc = "raised"
        /\ \A j \in 1..(k - 1) : futs[j].pc = "done"

SnapshotDone(futs) == \A k \in DOMAIN futs : futs[k].pc = "done"

\* Variant of ReturnServer that answers 200 also when there is no best server.
ReturnServer_always_200(r) ==
    /\ req[r].kind = "server"
    /\ req[r].pc = "waiting"
    /\ \/ /\ SnapshotRaises(task[r])
          /\ req' = [req EXCEPT ![r].pc = "failed"]
          /\ resp' = [resp EXCEPT ![r] = [code |-> 500, best |-> NoHealth, all |-> <<>>]]
       \/ /\ SnapshotDone(task[r])
          /\ get_best_server_raises(Results(task[r]))
          /\ req' = [req EXCEPT ![r].pc = "failed"]
          /\ resp' = [resp EXCEPT ![r] = [code |-> 500, best |-> NoHealth, all |-> <<>>]]
       \/ /\ SnapshotDone(task[r])
          /\ ~get_best_server_raises(Results(task[r]))
          /\ LET best_server == get_best_server(Results(task[r])) IN
             /\ req' = [req EXCEPT ![r].pc = "returned"]
             /\ resp' = [resp EXCEPT ![r] =
                            [code |-> 200, best |-> best_server, all |-> <<>>]]
    /\ UNCHANGED <<now, cache, task, lat, score, pool, queue>>

\* upload_endpoint lines 241-262: the snapshot is complete (or raised) and the
\* response is built; an exception of check_all_servers_parallel (line 172) or
\* of max (line 214) ends the handler in its except branch.
ReturnServer(r) ==
    /\ req[r].kind = "server"
    /\ req[r].pc = "waiting"
    /\ \/ /\ SnapshotRaises(task[r])
          /\ req' = [req EXCEPT ![r].pc = "failed"]
          /\ resp' = [resp EXCEPT ![r] = [code |-> 500, best |-> NoHealth, all |-> <<>>]]
       \/ /\ SnapshotDone(task[r])
          /\ get_best_server_raises(Results(task[r]))
          /\ req' = [req EXCEPT ![r].pc = "failed"]
          /\ resp' = [resp EXCEPT ![r] = [code |-> 500, best |-> NoHealth, all |-> <<>>]]
       \/ /\ SnapshotDone(task[r])
          /\ ~get_best_server_raises(Results(task[r]))
          /\ LET best_server == get_best_server(Results(task[r])) IN
             /\ req' = [req EXCEPT ![r].pc = "returned"]
             /\ resp' = [resp EXCEPT ![r] =
                            [code |-> IF best_server = NoHealth THEN 503 ELSE 200,
                             best |-> best_server, all |-> <<>>]]
    /\ UNCHANGED <<now, cache, task, lat, score, pool, queue>>

\* individual_server_health lines 306-311.
ReturnOne(r) ==
    /\ req[r].kind = "one"
    /\ req[r].pc = "waiting"
    /\ \/ /\ task[r][1].pc = "raised"
          /\ req' = [req EXCEPT ![r].pc = "failed"]
          /\ resp' = [resp EXCEPT ![r] = [code |-> 500, best |-> NoHealth, all |-> <<>>]]
       \/ /\ task[r][1].pc = "done"
          /\ req' = [req EXCEPT ![r].pc = "returned"]
          /\ resp' = [resp EXCEPT ![r] = [code |-> 200, best |-> task[r][1].health, all |-> <<>>]]
    /\ UNCHANGED <<now, cache, task, lat, score, pool, queue>>

\* GET /health arrives: health_check line 269, get_all_server_health submits
\* the futures of its snapshot.
StartHealth(r) ==
    /\ req[r].pc = "idle"
    /\ req' = [req EXCEPT ![r] = [kind |-> "health", pc |-> "waiting", name |-> -1]]
    /\ task' = [task EXCEPT ![r] = Futures(SERVERS)]
    /\ UNCHANGED <<now, cache, resp, lat, score, pool, queue>>

\* health_check lines 269-270: the snapshot of get_all_server_health is
\* complete and kept as all_servers; get_best_server then takes a snapshot of
\* its own (line 205).  An exception of the first snapshot ends the handler in
\* its except branch.
HealthSecond(r) ==
    /\ req[r].kind = "health"
    /\ req[r].pc = "waiting"
    /\ \/ /\ SnapshotRaises(task[r])
          /\ req' = [req EXCEPT ![r].pc = "failed"]
          /\ resp' = [resp EXCEPT ![r] = [code |-> 500, best |-> NoHealth, all |-> <<>>]]
          /\ UNCHANGED task
       \/ /\ SnapshotDone(task[r])
          /\ req' = [req EXCEPT ![r].pc = "waiting2"]
          /\ resp' = [resp EXCEPT ![r] =
                         [code |-> 0, best |-> NoHealth, all |-> Results(task[r])]]
          /\ task' = [task EXCEPT ![r] = Futures(SERVERS)]
    /\ UNCHANGED <<now, cache, lat, score, pool, queue>>

\* health_check lines 270-291: the snapshot of get_best_server is complete (or
\* raised) and the report is built from all_servers and best_server; an
\* exception of max (line 214) ends the handler in its except branch.
ReturnHealth(r) ==
    /\ req[r].kind = "health"
    /\ req[r].pc = "waiting2"
    /\ \/ /\ SnapshotRaises(task[r])
          /\ req' = [req EXCEPT ![r].pc = "failed"]
          /\ resp' = [resp EXCEPT ![r] = [code |-> 500, best |-> NoHealth, all |-> <<>>]]
       \/ /\ SnapshotDone(task[r])
          /\ get_best_server_raises(Results(task[r]))
          /\ req' = [req EXCEPT ![r].pc = "failed"]
          /\ resp' = [resp EXCEPT ![r] = [code |-> 500, best |-> NoHealth, all |-> <<>>]]
       \/ /\ SnapshotDone(task[r])
          /\ ~get_best_server_raises(Results(task[r]))
          /\ req' = [req EXCEPT ![r].pc = "returned"]
          /\ resp' = [resp EXCEPT ![r] =
                         [code |-> 200, best |-> get_best_server(Results(task[r])),
                          all |-> resp[r].all]]
    /\ UNCHANGED <<now, cache, task, lat, score, pool, queue>>

\* A GET of a URL that matches no route: Flask raises NotFound and the handler
\* not_found (lines 314-317) answers 404 'Endpoint not found'.
StartOther(r) ==
    /\ req[r].pc = "idle"
    /\ req' = [req EXCEPT ![r] = [kind |-> "other", pc |-> "returned", name |-> -1]]
    /\ resp' = [resp EXCEPT ![r] = [code |-> 404, best |-> NoHealth, all |-> <<>>]]
    /\ UNCHANGED <<now, cache, task, lat, score, pool, queue>>

\* The response has been delivered: the request thread ends and the client's
\* next request can be served.  After a 500 the futures of the failed snapshot
\* call that have not ended run on in the executor (at most MaxLeft of them at
\* a time in the model).
Finish(r) ==
    /\ req[r].pc \in {"returned", "failed"}
    /\ LET left == task[0] \o SelectSeq(task[r], Unfinished) IN
       /\ Len(left) <= MaxLeft
       /\ task' = [task EXCEPT ![r] = <<>>, ![0] = left]
    /\ req' = [req EXCEPT ![r] = Idle]
    /\ resp' = [resp EXCEPT ![r] = NoResp]
    /\ UNCHANGED <<now, cache, lat, score, pool, queue>>

\* Outcomes of the probes under which the cache and the responses of the
\* handlers are examined: a transport failure, a 200 answer that makes
\* check_server raise, an answer 404, and 200 answers with a number and with
\* null as score.
ProbeOutcomes ==
    {o \in Outcomes : \/ (o.exc /\ o.status_code = -1)
                      \/ o.body = "non_object"
                      \/ (~o.exc /\ o.status_code = 404)
                      \/ (o.body = "object" /\ o.status = "healthy"
                             /\ o.score # ScoreNaN)}

\* One client that sends its next request as soon as the previous one is
\* answered: requests are served one after the other (their probes run
\* concurrently in the executor), and after a 500 the new request runs next to
\* the futures the failed snapshot call has left in the executor.
Next ==
    \/ Tick
    \/ StartServer(1)
    \/ \E n \in ServerNames : StartOne(1, n)
    \/ StartOther(1)
    \/ \E r \in {0, 1}, k \in 1..NumServers : TaskStart(r, k)
    \/ \E r \in {0, 1}, k \in 1..NumServers, out \in ProbeOutcomes : Respond(r, k, out)
    \/ \E r \in {0, 1}, k \in 1..NumServers : WriteCache(r, k)
    \/ ReturnServer(1)
    \/ ReturnOne(1)
    \/ Finish(1)

Spec == Init /\ [][Next]_vars

\* Outcomes of the probes under which the selection is examined: a transport
\* failure, an answer 404, and 200 answers without a score and with a score
\* that is a number, NaN or null.
SelectOutcomes ==
    {o \in Outcomes : \/ (o.exc /\ o.status_code = -1)
                      \/ (~o.exc /\ o.status_code = 404)
                      \/ (o.body \in {"object", "object_no_score"} /\ o.status = "healthy")}

\* The same client with upstreams that answer with these scores.
NextSelect ==
    \/ Tick
    \/ StartServer(1)
    \/ \E n \in ServerNames : StartOne(1, n)
    \/ StartOther(1)
    \/ \E k \in 1..NumServers : TaskStart(1, k)
    \/ \E k \in 1..NumServers, out \in SelectOutcomes : Respond(1, k, out)
    \/ \E k \in 1..NumServers : WriteCache(1, k)
    \/ ReturnServer(1)
    \/ ReturnOne(1)
    \/ Finish(1)

SpecSelect == Init /\ [][NextSelect]_vars

\* Outcomes of the probes under which the handling of failures is examined: a
\* transport failure, the 200 answers with a malformed body and a 200 answer
\* with a number as score.
FailOutcomes ==
    {o \in Outcomes : \/ (o.exc /\ o.status_code = -1)
                      \/ o.body \in {"non_object", "deep_object", "not_json"}
                      \/ (o.body = "object" /\ o.status = "healthy" /\ IsNumber(o.score))}

\* The same client with upstreams that fail.
NextFail ==
    \/ Tick
    \/ StartServer(1)
    \/ \E n \in ServerNames : StartOne(1, n)
    \/ StartOther(1)
    \/ \E r \in {0, 1}, k \in 1..NumServers : TaskStart(r, k)
    \/ \E r \in {0, 1}, k \in 1..NumServers, out \in FailOutcomes : Respond(r, k, out)
    \/ \E r \in {0, 1}, k \in 1..NumServers : WriteCache(r, k)
    \/ ReturnServer(1)
    \/ ReturnOne(1)
    \/ Finish(1)

SpecFail == Init /\ [][NextFail]_vars

\* Outcomes of the probes under which the statuses of the answers are examined:
\* answers other than 200 (413 with Retry-After, delivered once the retries are
\* used up; 503, on which the retries end in RetryError; either with a
\* Retry-After that cannot be converted, on which session.get raises a
\* ValueError), and 200 answers with a number as score whose "status" member
\* is "unhealthy" or absent.
StatusOutcomes ==
    {o \in Outcomes : \/ o.status_code \in {413, 503}
                      \/ o.fault
                      \/ (o.body = "object" /\ o.status \in {"unhealthy", "absent"}
                             /\ IsNumber(o.score))}

\* The same client with upstreams that answer with these statuses.
NextStatus ==
    \/ Tick
    \/ StartServer(1)
    \/ \E n \in ServerNames : StartOne(1, n)
    \/ StartOther(1)
    \/ \E r \in {0, 1}, k \in 1..NumServers : TaskStart(r, k)
    \/ \E r \in {0, 1}, k \in 1..NumServers, out \in StatusOutcomes : Respond(r, k, out)
    \/ \E r \in {0, 1}, k \in 1..NumServers : WriteCache(r, k)
    \/ ReturnServer(1)
    \/ ReturnOne(1)
    \/ Finish(1)

SpecStatus == Init /\ [][NextStatus]_vars

\* Outcomes of the probes under concurrent clients: a transport failure or a
\* 200 answer with a number as score.
ConcOutcomes ==
    {o \in Outcomes : (o.exc /\ o.status_code = -1)
                          \/ (o.body = "object" /\ o.status = "healthy"
                                 /\ IsNumber(o.score))}

\* Request threads serve clients concurrently (app.run(threaded=True)): thread 1
\* serves GET /server, the others GET /servers/<server_name>/health.
NextConc ==
    \/ Tick
    \/ StartServer(1)
    \/ \E r \in Requests \ {1}, n \in ServerNames : StartOne(r, n)
    \/ \E r \in Requests, k \in 1..NumServers : TaskStart(r, k)
    \/ \E r \in Requests, k \in 1..NumServers, out \in ConcOutcomes : Respond(r, k, out)
    \/ \E r \in Requests, k \in 1..NumServers : WriteCache(r, k)
    \/ ReturnServer(1)
    \/ \E r \in Requests \ {1} : ReturnOne(r)
    \/ \E r \in Requests : Finish(r)

SpecConc == Init /\ [][NextConc]_vars

\* Outcomes of the probes under which the aggregate report is examined: a 200
\* answer that makes check_server raise, an answer 404 and 200 answers with a
\* number and with null as score.
HealthOutcomes ==
    {o \in Outcomes : \/ o.body = "non_object"
                      \/ (~o.exc /\ o.status_code = 404)
                      \/ (o.body = "object" /\ o.status = "healthy"
                             /\ o.score # ScoreNaN)}

\* One client that asks for the aggregate report GET /health, the next one as
\* soon as the previous one is answered.
NextHealth ==
    \/ Tick
    \/ StartHealth(1)
    \/ \E r \in {0, 1}, k \in 1..NumServers : TaskStart(r, k)
    \/ \E r \in {0, 1}, k \in 1..NumServers, out \in HealthOutcomes : Respond(r, k, out)
    \/ \E r \in {0, 1}, k \in 1..NumServers : WriteCache(r, k)
    \/ HealthSecond(1)
    \/ ReturnHealth(1)
    \/ Finish(1)

SpecHealth == Init /\ [][NextHealth]_vars

\* ---- _calculate_score on pairs of latencies ----
MeasureA(ms) ==
    /\ lat' = <<ms, lat[2]>>
    /\ score' = <<_calculate_score(ms), score[2]>>
    /\ UNCHANGED <<now, cache, req, task, resp, pool, queue>>

MeasureB(ms) ==
    /\ lat' = <<lat[1], ms>>
    /\ score' = <<score[1], _calculate_score(ms)>>
    /\ UNCHANGED <<now, cache, req, task, resp, pool, queue>>

NextScore ==
    \/ \E ms \in Latencies : MeasureA(ms)
    \/ \E ms \in Latencies : MeasureB(ms)

SpecScore == Init /\ [][NextScore]_vars

\* ---- the executor shared by concurrent snapshot calls ----
\* Here the registry has PoolServers members and a task is followed only
\* through the executor: queued, running in a worker, ended (returned or raised).

RECURSIVE Count(_, _)
\* number of tasks of request thread r in the work queue q
Count(q, r) ==
    IF q = <<>> THEN 0
    ELSE (IF Head(q) = r THEN 1 ELSE 0) + Count(Tail(q), r)

RECURSIVE Sum(_, _)
\* number of busy workers: the running tasks of the request threads in S
Sum(f, S) ==
    IF S = {} THEN 0
    ELSE LET x == CHOOSE y \in S : TRUE
         IN Cardinality(f[x].running) + Sum(f, S \ {x})

\* Variant of AllResulted that stops waiting once every task has started.
AllResulted_started(queued, running) == queued = 0

\* line 172: every future.result() of the list has returned: no task of the
\* call is queued or running.
AllResulted(queued, running) == queued = 0 /\ running = 0

\* line 171: check_all_servers_parallel submits one task per registry member,
\* one executor.submit at a time; each appends a task to the work queue, and the
\* submits of other threads and the workers run in between.
PoolSubmit(r) ==
    /\ pool[r].pc \in {"idle", "submitting"}
    /\ LET n == pool[r].submitted + 1 IN
       pool' = [pool EXCEPT ![r] =
                   [@ EXCEPT !.pc = IF n = PoolServers THEN "waiting" ELSE "submitting",
                             !.submitted = n]]
    /\ queue' = Append(queue, r)
    /\ UNCHANGED <<now, cache, req, task, resp, lat, score>>

\* a worker thread takes the oldest task of the work queue: the next future of
\* the call that submitted it, or a task that a failed call has left
WorkerStart ==
    /\ queue # <<>>
    /\ HasIdleWorker(Sum(pool, Slots))
    /\ LET r == Head(queue) IN
       pool' = IF r = 0
               THEN [pool EXCEPT ![0].running = 1..(Cardinality(@) + 1)]
               ELSE [pool EXCEPT ![r].started = @ + 1,
                                 ![r].running = @ \cup {pool[r].started + 1}]
    /\ queue' = Tail(queue)
    /\ UNCHANGED <<now, cache, req, task, resp, lat, score>>

\* the running check_server of future i ends: it returns a record (from the
\* cache, from an answer, from a transport failure or timeout) or raises;
\* nobody reads the exception of a task that a failed call has left
WorkerFinish(r, i, raises) ==
    /\ i \in pool[r].running
    /\ pool' = IF r = 0
               THEN [pool EXCEPT ![0].running = 1..(Cardinality(@) - 1)]
               ELSE [pool EXCEPT ![r].running = @ \ {i},
                                 ![r].raised = IF raises /\ (@ = 0 \/ i < @) THEN i ELSE @]
    /\ UNCHANGED <<now, cache, req, task, resp, lat, score, queue>>

\* line 172: future.result() in list order: the calling thread gets the result
\* of every future, or the exception of the first future that raised, once
\* every future before it has ended
PoolReturn(r) ==
    /\ pool[r].pc = "waiting"
    /\ \/ /\ pool[r].raised > 0
          /\ \A j \in 1..(pool[r].raised - 1) : j \notin pool[r].running
          /\ pool' = [pool EXCEPT ![r].pc = "failed"]
       \/ /\ pool[r].raised = 0
          /\ AllResulted(Count(queue, r), Cardinality(pool[r].running))
          /\ pool' = [pool EXCEPT ![r].pc = "returned"]
    /\ UNCHANGED <<now, cache, req, task, resp, lat, score, queue>>

\* the work queue in which the tasks of thread r belong to no call any more
Disown(q, r) == [i \in DOMAIN q |-> IF q[i] = r THEN 0 ELSE q[i]]

\* The response has been delivered: the request thread ends and serves the
\* client's next request.  The tasks of a failed call that are queued or running
\* stay in the executor (at most MaxPoolLeft of them at a time in the model).
PoolFinish(r) ==
    /\ pool[r].pc \in {"returned", "failed"}
    /\ Count(queue, 0) + Cardinality(pool[0].running)
           + Count(queue, r) + Cardinality(pool[r].running) <= MaxPoolLeft
    /\ pool' = [pool EXCEPT ![r] = PoolIdle,
                            ![0].running = 1..(Cardinality(@) + Cardinality(pool[r].running))]
    /\ queue' = Disown(queue, r)
    /\ UNCHANGED <<now, cache, req, task, resp, lat, score>>

NextPool ==
    \/ \E r \in Requests : PoolSubmit(r)
    \/ WorkerStart
    \/ \E r \in Slots, i \in 1..PoolServers, raises \in BOOLEAN : WorkerFinish(r, i, raises)
    \/ \E r \in Requests : PoolReturn(r)
    \/ \E r \in Requests : PoolFinish(r)

SpecPool == Init /\ [][NextPool]_vars

\* Scheduling: a thread in the loop of line 171 goes on submitting, an idle
\* worker takes queued work, every running check_server ends (each probe is
\* bounded by its timeout), and a request thread whose future.result() can
\* return runs on.
SpecPoolFair ==
    /\ SpecPool
    /\ \A r \in Requests : WF_vars(pool[r].pc = "submitting" /\ PoolSubmit(r))
    /\ WF_vars(WorkerStart)
    /\ \A r \in Slots, i \in 1..PoolServers :
           WF_vars(\E raises \in BOOLEAN : WorkerFinish(r, i, raises))
    /\ \A r \in Requests : WF_vars(PoolReturn(r))

\* ======================= properties =======================

\* request thread r has returned from get_best_server with a snapshot
IsSnapshot(r) == req[r].kind = "server" /\ req[r].pc = "returned"

\* the cache entry of url is present and younger than the TTL
Fresh(url) == url \in DOMAIN cache /\ now - cache[url].timestamp < cache_ttl

\* in this step call k of request r consults the cache (check_server line 110)
Consults(r, k) ==
    /\ k \in DOMAIN task[r]
    /\ k \in DOMAIN task'[r]
    /\ task[r][k].pc = "queued"
    /\ task'[r][k].pc # "queued"

\* the sequence without its element k
Remove(calls, k) ==
    [i \in 1..(Len(calls) - 1) |-> IF i < k THEN calls[i] ELSE calls[i + 1]]

\* in this step the left-over future k ends
LeftEnds(k) == k \in DOMAIN task[0] /\ task'[0] = Remove(task[0], k)

\* in this step the left-over future k is served from the cache
LeftHit(k) == LeftEnds(k) /\ task[0][k].pc = "queued"

\* in this step the left-over future k issues its probe
LeftSends(k) ==
    /\ k \in DOMAIN task[0]
    /\ task[0][k].pc = "queued"
    /\ task' = [task EXCEPT ![0][k] = [@ EXCEPT !.pc = "sent", !.start_time = now]]

\* in this step the left-over future k writes the cache and ends
LeftWrites(k) == LeftEnds(k) /\ task[0][k].pc = "built"

\* in this step call k of request r issues a probe (session.get)
IssuesProbe(r, k) ==
    /\ k \in DOMAIN task'[r]
    /\ task'[r][k].pc = "sent"
    /\ (k \notin DOMAIN task[r] \/ task[r][k].pc # "sent")

\* get_best_server of request thread r has ended on a complete snapshot: every
\* check_server of the snapshot call returned, and the handler has answered
SelectionMade(r) ==
    /\ req[r].kind = "server"
    /\ req[r].pc \in {"returned", "failed"}
    /\ SnapshotDone(task[r])

\* score a is greater than or equal to score b (no order holds between NaN or
\* None and any score)
AtLeast(a, b) == IsNumber(a) /\ IsNumber(b) /\ a >= b

\* C1: for every snapshot get_best_server returns none exactly when the
\* snapshot has no Healthy record; otherwise it returns a Healthy record of
\* the snapshot whose score is greater than or equal to the score of every
\* other Healthy record; an Unhealthy or Error record is never returned.
C1_BestIsMaxHealthy ==
    \A r \in Requests : SelectionMade(r) =>
        LET snap == Results(task[r])
            best == resp[r].best
        IN /\ req[r].pc = "returned"
           /\ (best = NoHealth) <=> (\A i \in DOMAIN snap : snap[i].health # HEALTHY)
           /\ (resp[r].code = 503) <=> (best = NoHealth)
           /\ best # NoHealth =>
                 \E p \in DOMAIN snap :
                     /\ snap[p] = best
                     /\ best.health = HEALTHY
                     /\ \A i \in DOMAIN snap \ {p} :
                            snap[i].health = HEALTHY => AtLeast(best.score, snap[i].score)

\* C2: when several Healthy records of a snapshot share the maximum score,
\* get_best_server returns the one of them at the smallest registry position.
C2_TieBreakFirst ==
    \A r \in Requests : SelectionMade(r) =>
        LET snap == Results(task[r]) IN
        \A i, j \in DOMAIN snap :
            (/\ i < j
             /\ snap[i].health = HEALTHY
             /\ snap[j].health = HEALTHY
             /\ snap[i].score = snap[j].score
             /\ \A k \in DOMAIN snap :
                    snap[k].health = HEALTHY =>
                        /\ ~Greater(snap[k].score, snap[i].score)
                        /\ k < i => snap[k].score # snap[i].score)
            => /\ req[r].pc = "returned"
               /\ resp[r].best = snap[i]

\* C3: whenever check_server returns without a probe (a cache hit), the cache
\* entry it read is present and its age is strictly less than the TTL; an
\* entry of age >= TTL is never returned.
C3_NeverStale ==
    [][/\ \A r \in Requests, k \in 1..NumServers :
             (Consults(r, k) /\ task'[r][k].pc = "done") =>
                 LET url == task[r][k].server.url
                 IN /\ url \in DOMAIN cache
                    /\ now - cache[url].timestamp < cache_ttl
                    /\ now - cache[url].timestamp >= 0
       /\ \A k \in 1..MaxLeft :
             LeftHit(k) =>
                 LET url == task[0][k].server.url
                 IN /\ url \in DOMAIN cache
                    /\ now - cache[url].timestamp < cache_ttl
                    /\ now - cache[url].timestamp >= 0]_vars

\* a hit on an entry of positive age
C3_Witness ==
    \E r \in Requests : \E k \in DOMAIN task[r] :
        /\ task[r][k].hit
        /\ task[r][k].server.url \in DOMAIN cache
        /\ task[r][k].health = cache[task[r][k].server.url].health
        /\ cache[task[r][k].server.url].timestamp < now
        /\ Fresh(task[r][k].server.url)

\* C4: a check_server call made while the entry of its upstream is within the
\* TTL returns the cached record itself, sends no request and leaves the cache
\* unchanged, whatever the status of the cached record.
C4_CacheHit ==
    [][/\ \A r \in Requests, k \in 1..NumServers :
             (Consults(r, k) /\ Fresh(task[r][k].server.url)) =>
                 /\ task'[r][k].pc = "done"
                 /\ task'[r][k].health = cache[task[r][k].server.url].health
                 /\ task'[r][k].start_time = -1
                 /\ cache' = cache
       /\ \A k \in 1..MaxLeft :
             ((LeftHit(k) \/ LeftSends(k)) /\ Fresh(task[0][k].server.url)) =>
                 /\ LeftHit(k)
                 /\ cache' = cache]_vars

\* a hit that returned a cached Error record
C4_Witness ==
    \E r \in Requests : \E k \in DOMAIN task[r] :
        /\ task[r][k].hit
        /\ task[r][k].pc = "done"
        /\ task[r][k].health.health = ERROR

\* no two probes of one request for the same upstream key are in flight
C5_OneInFlight ==
    \A r \in Requests : \A j, k \in DOMAIN task[r] :
        (j # k /\ task[r][j].server.url = task[r][k].server.url) =>
            ~(task[r][j].pc = "sent" /\ task[r][k].pc = "sent")

\* a call issues a probe exactly when it consults the cache and finds the entry
\* of its upstream absent or of age >= TTL
C5_ProbeIffStale ==
    /\ \A r \in Requests, k \in 1..NumServers :
           IssuesProbe(r, k) <=> (Consults(r, k) /\ ~Fresh(task[r][k].server.url))
    /\ \A k \in 1..MaxLeft :
           LeftSends(k) <=>
               ((LeftHit(k) \/ LeftSends(k)) /\ ~Fresh(task[0][k].server.url))

\* C5: a snapshot call issues one probe for each upstream whose entry is stale
\* or absent when consulted and none for an upstream whose entry is fresh, and
\* never has two probes for the same upstream key in flight.
C5_OneProbePerStale == []C5_OneInFlight /\ [][C5_ProbeIffStale]_vars

\* after the TTL has elapsed, one call of a snapshot probes a stale upstream
\* while another call of the same snapshot was served from a fresh entry
C5_Witness ==
    \E r \in Requests :
        /\ req[r].kind = "server"
        /\ req[r].pc = "waiting"
        /\ \E j, k \in DOMAIN task[r] :
               /\ task[r][j].pc = "sent"
               /\ task[r][j].start_time = now
               /\ task[r][j].server.url \in DOMAIN cache
               /\ now - cache[task[r][j].server.url].timestamp >= cache_ttl
               /\ task[r][k].hit

\* C6: a returned snapshot has one record per registry member, and the record
\* at position i carries the name of the member at position i.
C6_SnapshotOrder ==
    \A r \in Requests : IsSnapshot(r) =>
        LET snap == Results(task[r])
        IN /\ Len(snap) = Len(SERVERS)
           /\ \A i \in 1..Len(SERVERS) :
                  /\ snap[i].name = SERVERS[i].name
                  /\ snap[i].url = SERVERS[i].url

\* a returned snapshot whose later member was captured before an earlier one
C6_Witness ==
    \E r \in Requests :
        /\ IsSnapshot(r)
        /\ \E i, j \in DOMAIN task[r] :
               /\ i < j
               /\ ~task[r][i].hit
               /\ ~task[r][j].hit
               /\ task[r][j].health.last_checked < task[r][i].health.last_checked

\* the status the prober is to give to the outcome of a probe
Classify(out) ==
    IF out.exc THEN ERROR
    ELSE IF out.status_code = 200 /\ out.body \in {"object", "object_no_score"}
    THEN HEALTHY
    ELSE UNHEALTHY

\* C7: a transport failure of one member never fails the snapshot call: the
\* failed member gets an Error record, the call fails only when a check_server
\* raised for another reason, and a returned snapshot holds, for every member,
\* a record with the status its own probe produced.
C7_PartialFailureIsolation ==
    \A r \in Requests : req[r].kind = "server" =>
        /\ \A k \in DOMAIN task[r] :
               task[r][k].out.exc =>
                   /\ task[r][k].pc \in {"built", "done"}
                   /\ task[r][k].health.health = ERROR
        /\ req[r].pc = "failed" =>
               \E k \in DOMAIN task[r] : task[r][k].pc = "raised" /\ ~task[r][k].out.exc
        /\ req[r].pc = "returned" =>
               \A k \in 1..Len(SERVERS) :
                   /\ k \in DOMAIN task[r]
                   /\ Results(task[r])[k].health \in {HEALTHY, UNHEALTHY, ERROR}
                   /\ ~task[r][k].hit =>
                          Results(task[r])[k].health = Classify(task[r][k].out)

\* a returned snapshot with a member whose probe failed in the transport and
\* another member whose probe was answered
C7_Witness ==
    \E r \in Requests :
        /\ IsSnapshot(r)
        /\ \E j, k \in DOMAIN task[r] :
               /\ task[r][j].out.exc
               /\ task[r][j].health.health = ERROR
               /\ ~task[r][k].hit
               /\ task[r][k].health.health = HEALTHY

\* a 200 answer whose body is malformed
Malformed(out) ==
    ~out.exc /\ out.status_code = 200 /\ out.body \in {"not_json", "non_object", "deep_object"}

\* C8: check_server never raises: no call ends with an exception, no handler
\* ends in its except branch, and a 200 answer with a malformed body yields an
\* Unhealthy record with score 0, an error detail and the response time.
C8_ProbeNeverRaises ==
    \A r \in Slots :
        /\ r \in Requests => req[r].pc # "failed"
        /\ \A k \in DOMAIN task[r] :
               /\ task[r][k].pc # "raised"
               /\ (task[r][k].pc \in {"built", "done"} /\ Malformed(task[r][k].out)) =>
                      /\ task[r][k].health.health = UNHEALTHY
                      /\ task[r][k].health.score = 0
                      /\ task[r][k].health.error # "None"
                      /\ task[r][k].health.response_time >= 0

\* C9: the capture time (last_checked) of the record cached for an upstream
\* never decreases.
C9_CapturedAtMonotone ==
    [][\A u \in DOMAIN cache :
          cache'[u].health.last_checked >= cache[u].health.last_checked]_vars

\* C10: _calculate_score is non-increasing in the latency.
C10_ScoreMonotone == lat[1] <= lat[2] => score[1] >= score[2]

\* C11: for every non-negative latency _calculate_score returns a value that
\* is at least 1 and at most 100.
C11_ScoreInRange ==
    \A i \in 1..2 :
        /\ lat[i] >= 0
        /\ score[i] = _calculate_score(lat[i])
        /\ score[i] >= 1
        /\ score[i] <= 100

\* a latency below 100 ms scored 100 next to a latency beyond 990 ms, where
\* only the floor keeps the score at 1
C11_Witness ==
    /\ lat[1] < 100
    /\ score[1] = 100
    /\ lat[2] > 990
    /\ score[2] = 1

\* C12: every probe answered with a status other than 200 (the statuses of
\* status_forcelist included, after their retries) yields an Unhealthy record
\* with score 0 and the status code of the answer, and never an Error record.
C12_Non200IsUnhealthy ==
    \A r \in Slots : \A k \in DOMAIN task[r] :
        LET t == task[r][k] IN
        (t.pc \in {"built", "done"} /\ ~t.hit /\ t.out.status_code \notin {-1, 200}) =>
            /\ t.health.health = UNHEALTHY
            /\ t.health.score = 0
            /\ t.health.status_code = t.out.status_code

\* the name is the name of a registry member
Registered(server_name) == \E i \in 1..Len(SERVERS) : SERVERS[i].name = server_name

\* a lookup of an unregistered name has answered NotFound without a record and
\* without a check_server call
C13_NotFound ==
    \A r \in Requests : (req[r].kind = "one" /\ ~Registered(req[r].name)) =>
        /\ req[r].pc = "returned"
        /\ resp[r].code = 404
        /\ resp[r].best = NoHealth
        /\ task[r] = <<>>

\* the step in which a lookup of an unregistered name arrives leaves the cache
\* and the calls of check_server as they are
C13_Frame ==
    \A r \in Requests :
        (req[r].pc = "idle" /\ req'[r].kind = "one" /\ ~Registered(req'[r].name)) =>
            /\ cache' = cache
            /\ task' = task

\* C13: the per-server lookup of a name that is not in the registry answers
\* NotFound, never a default or zero-valued record, issues no probe and leaves
\* the cache unchanged.
C13_UnknownNameNotFound == []C13_NotFound /\ [][C13_Frame]_vars

\* NotFound was answered for the unregistered name 0 while the cache held
\* records
C13_Witness ==
    \E r \in Requests :
        /\ req[r].kind = "one"
        /\ req[r].name = 0
        /\ resp[r].code = 404
        /\ cache # <<>>

\* a 200 answer whose body decodes to a JSON object, with or without the
\* members "status" and "score"
Decodable200(out) ==
    ~out.exc /\ out.status_code = 200 /\ out.body \in {"object", "object_no_score"}

\* C14: every probe that receives a 200 answer with a decodable body yields a
\* Healthy record that is a candidate of the selection, whatever the "status"
\* member of the body says and also when it is absent.
C14_StatusStringIgnored ==
    \A r \in Slots : \A k \in DOMAIN task[r] :
        LET t == task[r][k] IN
        (t.pc \in {"built", "done", "raised"} /\ ~t.hit /\ Decodable200(t.out)) =>
            /\ t.pc # "raised"
            /\ t.health.health = HEALTHY
            /\ t.health.status_code = 200
            /\ (r \in Requests /\ IsSnapshot(r)) =>
                   /\ resp[r].code = 200
                   /\ resp[r].best.health = HEALTHY
                   /\ resp[r].best.score >= t.health.score

\* the record selected as best comes from an upstream that reported itself
\* "unhealthy", next to a Healthy record of an upstream whose body had no
\* "status" member
C14_Witness ==
    \E r \in Requests :
        /\ IsSnapshot(r)
        /\ \E j, k \in DOMAIN task[r] :
               /\ ~task[r][j].hit
               /\ task[r][j].out.status = "unhealthy"
               /\ resp[r].best = task[r][j].health
               /\ ~task[r][k].hit
               /\ Decodable200(task[r][k].out)
               /\ task[r][k].out.status = "absent"
               /\ task[r][k].health.health = HEALTHY

\* a snapshot call that has returned has no task left queued or running, and
\* none of its tasks raised
C15_NoPartialResult ==
    \A r \in Requests : pool[r].pc = "returned" =>
        /\ Count(queue, r) = 0
        /\ pool[r].running = {}
        /\ pool[r].raised = 0

\* C15: a snapshot call never returns a partial result (it returns only after
\* every task it submitted has ended), and, every probe ending, every snapshot
\* call eventually ends (it returns, or re-raises what a check_server raised),
\* also when several calls share the max_workers workers.
C15_SnapshotCompletes ==
    /\ []C15_NoPartialResult
    /\ \A r \in Requests :
           (pool[r].pc \in {"submitting", "waiting"})
               ~> (pool[r].pc \in {"returned", "failed"})

\* a snapshot call has returned while the tasks of another call fill the
\* workers and more of them wait in the queue
C15_Witness ==
    \E r, o \in Requests :
        /\ r # o
        /\ pool[r].pc = "returned"
        /\ pool[o].pc = "waiting"
        /\ pool[o].running # {}
        /\ Count(queue, o) > 0

\* C18: at every moment the tasks of all snapshot calls that run
\* simultaneously number at most max_workers; the others wait in the queue.
C18_WorkerLimit ==
    /\ Sum(pool, Slots) <= max_workers
    /\ \A r \in Requests :
           pool[r].pc \in {"submitting", "waiting"} =>
               Count(queue, r) + Cardinality(pool[r].running) <= pool[r].submitted

\* every worker is busy, with tasks of two snapshot calls and with tasks that a
\* failed call has left, and further tasks wait
C18_Witness ==
    /\ Sum(pool, Slots) = max_workers
    /\ queue # <<>>
    /\ \A r \in Slots : pool[r].running # {}

\* in this step call k of request r ends after a probe (check_server line 167)
Writes(r, k) ==
    /\ k \in DOMAIN task[r]
    /\ k \in DOMAIN task'[r]
    /\ task[r][k].pc = "built"
    /\ task'[r][k].pc = "done"

\* what one step of a check_server call does to the cache: a call served from a
\* fresh entry leaves the cache as it is; a call that probed writes, when it
\* ends, the record it returns and the current time into the entry of its own
\* upstream and no other entry; the cache changes in no other step
C16_StepFrame ==
    /\ \A r \in Requests, k \in 1..NumServers :
           /\ (Consults(r, k) /\ task'[r][k].hit) =>
                  /\ cache' = cache
                  /\ task'[r][k].health = cache[task[r][k].server.url].health
           /\ Writes(r, k) =>
                  LET url == task[r][k].server.url IN
                  /\ ~task[r][k].hit
                  /\ DOMAIN cache' = DOMAIN cache \cup {url}
                  /\ cache'[url] = [health |-> task'[r][k].health, timestamp |-> now]
                  /\ task'[r][k].health = task[r][k].health
                  /\ \A u \in DOMAIN cache \ {url} : cache'[u] = cache[u]
    /\ \A k \in 1..MaxLeft :
           /\ LeftHit(k) => cache' = cache
           /\ LeftWrites(k) =>
                  LET url == task[0][k].server.url IN
                  /\ DOMAIN cache' = DOMAIN cache \cup {url}
                  /\ cache'[url] = [health |-> task[0][k].health, timestamp |-> now]
                  /\ \A u \in DOMAIN cache \ {url} : cache'[u] = cache[u]
    /\ cache' # cache =>
           \/ \E r \in Requests, k \in 1..NumServers : Writes(r, k)
           \/ \E k \in 1..MaxLeft : LeftWrites(k)

\* C16 (as it holds): frame of the check_server calls of a snapshot call, step
\* by step: a call served from a fresh entry leaves the entry unchanged; a call
\* that probed writes the record it returns into the entry of its upstream;
\* no other entry is touched.  (A concurrent call for the same upstream may
\* have replaced the entry by the time the snapshot call returns.)
C16_FrameOfCalls == [][C16_StepFrame]_vars

\* a returned snapshot with a record served from the cache and a record it
\* probed, both still held by the cache
C16_Witness ==
    \E r \in Requests :
        /\ IsSnapshot(r)
        /\ \E j, k \in DOMAIN task[r] :
               /\ task[r][j].hit
               /\ cache[task[r][j].server.url].health = task[r][j].health
               /\ ~task[r][k].hit
               /\ cache[task[r][k].server.url].health = task[r][k].health
               /\ cache[task[r][k].server.url].timestamp = task[r][k].health.last_checked

\* C16: when a snapshot call has returned, the entry of every upstream it
\* served from the cache is unchanged and the entry of every upstream it probed
\* holds the record the call returned for it.
C16_FrameAfterCall ==
    \A r \in Requests : IsSnapshot(r) =>
        \A k \in DOMAIN task[r] :
            /\ task[r][k].server.url \in DOMAIN cache
            /\ cache[task[r][k].server.url].health = task[r][k].health

\* a record that is not Healthy has score 0, and an Error record has no
\* response time
WellFormed(h) ==
    /\ h.health \in {HEALTHY, UNHEALTHY, ERROR}
    /\ h.health # HEALTHY => h.score = 0
    /\ h.health = ERROR => h.response_time = -1

\* C17: every record that is cached, returned by a check_server call or
\* returned in a response has score 0 unless it is Healthy, and has no
\* response time when it is an Error record.
C17_RecordInvariant ==
    /\ \A u \in DOMAIN cache : WellFormed(cache[u].health)
    /\ \A r \in Slots : \A k \in DOMAIN task[r] :
           task[r][k].pc \in {"built", "done"} => WellFormed(task[r][k].health)
    /\ \A r \in Requests : resp[r].best # NoHealth => WellFormed(resp[r].best)

\* the cache holds an Error record next to an Unhealthy record with a response
\* time, and a snapshot with both has been returned
C17_Witness ==
    \E r \in Requests :
        /\ IsSnapshot(r)
        /\ \E j, k \in DOMAIN task[r] :
               /\ task[r][j].health.health = ERROR
               /\ cache[task[r][j].server.url].health = task[r][j].health
               /\ task[r][k].health.health = UNHEALTHY
               /\ task[r][k].health.response_time > 0
               /\ cache[task[r][k].server.url].health = task[r][k].health

\* max cannot order the Healthy records of the snapshot: there are several,
\* and the score of one of them is None
Unorderable(snap) ==
    \E i, j \in DOMAIN snap :
        /\ i # j
        /\ snap[i].health = HEALTHY
        /\ snap[j].health = HEALTHY
        /\ snap[i].score = ScoreNone

\* the answers of /server and of the per-server lookup: 503 exactly for a
\* snapshot without a Healthy record, 200 with the best record for a snapshot
\* whose Healthy records max can order, 500 exactly when a check_server raised
\* or max cannot order the Healthy records, and for the lookup 404 exactly for
\* an unregistered name
C19_ServerAndLookup ==
    \A r \in Requests :
        /\ resp[r].code \in {0, 200, 404, 500, 503}
        /\ resp[r].code # 0 <=> req[r].pc \in {"returned", "failed"}
        /\ req[r].kind = "server" =>
               LET snap == Results(task[r]) IN
               /\ resp[r].code = 503 <=>
                      /\ req[r].pc = "returned"
                      /\ \A i \in DOMAIN snap : snap[i].health # HEALTHY
               /\ resp[r].code = 200 <=>
                      /\ req[r].pc = "returned"
                      /\ \E i \in DOMAIN snap : snap[i].health = HEALTHY
               /\ req[r].pc = "returned" =>
                      /\ SnapshotDone(task[r])
                      /\ ~Unorderable(snap)
               /\ req[r].pc = "failed" =>
                      \/ \E k \in DOMAIN task[r] : task[r][k].pc = "raised"
                      \/ SnapshotDone(task[r]) /\ Unorderable(snap)
               /\ resp[r].code = 200 =>
                      /\ resp[r].best = get_best_server(snap)
                      /\ resp[r].best.health = HEALTHY
                      /\ \E i \in DOMAIN snap : snap[i] = resp[r].best
               /\ resp[r].code = 503 => resp[r].best = NoHealth
               /\ resp[r].code # 404
        /\ resp[r].code = 500 <=> req[r].pc = "failed"
        /\ req[r].kind = "one" =>
               /\ req[r].pc = "failed" => task[r][1].pc = "raised"
               /\ resp[r].code = 404 <=> ~Registered(req[r].name)

\* C19 (as it holds): /server answers 503 exactly when its snapshot has no
\* Healthy record and 200 with the best record when max can order the Healthy
\* records of the snapshot; 500 is answered exactly when an exception reaches
\* the handler: a check_server raised, or max cannot order the Healthy
\* records; 404 is answered only for an unregistered name in the per-server
\* lookup or for a URL that matches no route.
C19_BoundaryOutcomes ==
    /\ C19_ServerAndLookup
    /\ \A r \in Requests :
           resp[r].code = 404 =>
               \/ req[r].kind = "one" /\ ~Registered(req[r].name)
               \/ req[r].kind = "other"

\* /server answered 503 for a snapshot of an Unhealthy and an Error record
C19_Witness ==
    \E r \in Requests :
        /\ IsSnapshot(r)
        /\ resp[r].code = 503
        /\ \E j, k \in DOMAIN task[r] :
               /\ task[r][j].health.health = UNHEALTHY
               /\ task[r][k].health.health = ERROR

\* C19: /server answers 503 exactly when its snapshot has no Healthy record and
\* 200 with the best record otherwise; 500 is answered only on an internal
\* fault; 404 is answered only for an unregistered name in the per-server
\* lookup.
C19_NotFoundOnlyForUnknownName ==
    /\ C19_ServerAndLookup
    /\ \A r \in Requests :
           resp[r].code = 404 => (req[r].kind = "one" /\ ~Registered(req[r].name))

\* health_check lines 272-275: healthy_count of the list all_servers
healthy_count(all_servers) == Len(SelectSeq(all_servers, IsHealthy))

\* C20: in every report of /health, best_server is the Healthy record of
\* maximal score of the list all_servers of the same report, and so is null
\* exactly when healthy_servers is 0.
C20_ReportConsistent ==
    \A r \in Requests : (req[r].kind = "health" /\ req[r].pc = "returned") =>
        /\ resp[r].best = get_best_server(resp[r].all)
        /\ (resp[r].best = NoHealth) <=> (healthy_count(resp[r].all) = 0)

====
